---- MODULE Spec2Model ----
(***************************************************************************)
(* RayTraceVoxelsOnCartesianGrid (STIR, recon_buildblock).                 *)
(*                                                                         *)
(* Number representation.  Coordinates are rationals n/Scale (grid units). *)
(* Parametric positions (a, ax, ay, az, inc_?, d12) are integers counted   *)
(* in "ticks": one tick is norm(difference*voxel_size) / P, where P is the *)
(* product of the non-zero |difference| numerators, so that every division *)
(* the code makes is exact.  The a?end values carry the factor .9999 and   *)
(* are kept as fractions n/d with d = 1 or d = Fine.  Arithmetic is exact: *)
(* floating-point rounding is not represented.                             *)
(*                                                                         *)
(* A behaviour is a caller tracing one line twice, first with its own      *)
(* normalisation constant into lor[1], then with 1 into lor[2].  The       *)
(* asserts are compiled in or out by the build: where one would fail, both *)
(* the abort (AssertFail) and the NDEBUG continuation (Enter) are behaviours.*)
(* lor.reserve (lines 58-62) changes capacity only and has no action.      *)
(***************************************************************************)
EXTENDS Integers, Sequences, FiniteSets, TLC

\* ---------------------------------------------------------------- bounds
\* grid steps per half voxel: coordinates are multiples of 1/(2*Half)
Half == 1
\* largest start coordinate (x and y), largest stop coordinates, in grid steps
MaxStart == 2
MaxX == 7
MaxY == 4
\* largest normalisation constant of the first call
MaxNorm == 2
\* more entries than any modelled line produces
MaxEntries == 16

Scale == 2 * Half

StartCoords == -1 .. MaxStart
XCoords == -1 .. MaxX
YCoords == -1 .. MaxY
ZCoords == 0 .. 1
Axes == {"x", "y", "z"}

VARIABLES start_point, stop_point, voxel_size, normalisation_constant,
          call, pc, inc, amax, a, ax, ay, az, current_voxel, lor

vars == <<start_point, stop_point, voxel_size, normalisation_constant,
          call, pc, inc, amax, a, ax, ay, az, current_voxel, lor>>

inputs == <<start_point, stop_point, voxel_size, normalisation_constant>>

consts == <<inc, amax>>

\* ------------------------------------------------------------ arithmetic
Abs(n) == IF n >= 0 THEN n ELSE -n

Max2(m, n) == IF m >= n THEN m ELSE n

\* stir::round(float): half-way cases go away from zero; n is a numerator
\* over Scale, the result is an integer voxel index
round(n) == IF n >= 0 THEN (n + Half) \div Scale
                      ELSE -((-n + Half) \div Scale)

\* fractions n/d, d >= 1
Rat(n, d) == [n |-> n, d |-> d]

CeilDiv(n, d) == -((-n) \div d)

\* q1 < q2, for fractions of which at least one has denominator 1 or both
\* have the same denominator (no product is formed with the large sentinel)
RatLess(q1, q2) ==
    IF q1.d = q2.d THEN q1.n < q2.n
    ELSE IF q1.d = 1 THEN q1.n < CeilDiv(q2.n, q2.d)
    ELSE (q1.n \div q1.d) < q2.n

RatMin(q1, q2) == IF RatLess(q2, q1) THEN q2 ELSE q1

\* ------------------------------------------------- locals of the function
\* the normalisation constant of the call in progress: the first call uses
\* the caller's constant (2 or more), the second call (same geometry) uses 1
normalisation == IF call = 1 THEN normalisation_constant ELSE 1

difference == [x |-> stop_point.x - start_point.x,
               y |-> stop_point.y - start_point.y,
               z |-> stop_point.z - start_point.z]

\* |difference * voxel_size|^2, in units of 1/Scale^2
NormSq ==
    (difference.x * voxel_size.x) * (difference.x * voxel_size.x)
  + (difference.y * voxel_size.y) * (difference.y * voxel_size.y)
  + (difference.z * voxel_size.z) * (difference.z * voxel_size.z)

\* ticks per norm(difference*voxel_size)
P == Max2(1, Abs(difference.x)) * Max2(1, Abs(difference.y))
       * Max2(1, Abs(difference.z))

\* norm(difference*voxel_size) in ticks
norm == IF NormSq = 0 THEN 0 ELSE P

\* slip: the normalisation constant left out of d12
d12_unnormalised == norm

d12 == norm * normalisation

sign(i) == IF difference[i] >= 0 THEN 1 ELSE -1

small_difference_num == 1
small_difference_den == 100000

\* fabs(difference.i) <= 1.E-5F
zero_diff_in(i) ==
    Abs(difference[i]) * small_difference_den <= small_difference_num * Scale

Sentinel == 1000000

inc_of(i) == IF zero_diff_in(i) THEN d12 * Sentinel
                                ELSE (d12 * Scale) \div Abs(difference[i])

\* slip: the start voxel's far edge taken instead of its 'left' edge
min_plane_wrong_face(i) == round(start_point[i]) * Scale + sign(i) * Half

\* slip: the end voxel's near edge taken instead of its 'right' edge
max_plane_wrong_face(i) == round(stop_point[i]) * Scale - sign(i) * Half

\* numerators over Scale
min_plane(i) == round(start_point[i]) * Scale - sign(i) * Half
max_plane(i) == round(stop_point[i]) * Scale + sign(i) * Half

Fine == 10000
SafetyNum == 9999

aend(i) ==
    IF zero_diff_in(i) THEN Rat(d12 * Sentinel, 1)
    ELSE Rat((((max_plane(i) - start_point[i]) * inc_of(i) * sign(i)) \div Scale)
                * SafetyNum, Fine)

RatMax(q1, q2) == IF RatLess(q1, q2) THEN q2 ELSE q1

\* slip: the largest a?end taken instead of the smallest
amax_of_max == RatMax(aend("x"), RatMax(aend("y"), aend("z")))

amax_of == RatMin(aend("x"), RatMin(aend("y"), aend("z")))

\* the asserts of lines 128-130
AssertEndsLargeEnough ==
    \A i \in Axes : ~zero_diff_in(i) \/ RatLess(amax_of, aend(i))

\* slip: the half voxel from the edge back to the centre left out
first_voxel_no_offset == [i \in Axes |-> round(min_plane(i))]

first_voxel == [i \in Axes |-> round(min_plane(i) + sign(i) * Half)]

\* slip: the direction sign left out
a_start_no_sign(i) ==
    IF zero_diff_in(i) THEN -inc_of(i)
    ELSE ((min_plane(i) - start_point[i]) * inc_of(i)) \div Scale

\* the a? value of the plane behind the start point
a_start(i) ==
    IF zero_diff_in(i) THEN -inc_of(i)
    ELSE ((min_plane(i) - start_point[i]) * inc_of(i) * sign(i)) \div Scale

a_first == Max2(a_start("x"), Max2(a_start("y"), a_start("z")))

\* slip: no special treatment of the parallel axes at lines 162-164
a_next_no_special(i) == a_start(i) + inc_of(i)

\* the a? value of the first plane ahead
a_next(i) ==
    IF zero_diff_in(i) THEN aend(i).n
    ELSE a_start(i) + inc_of(i)

\* the asserts of lines 167-169
AssertPendingLargeEnough ==
    \A i \in Axes : ~zero_diff_in(i) \/ RatLess(amax_of, Rat(a_next(i), 1))

\* slip: <= for <, which lets x win a tie with y or z and y win against z
Branch_x_first(px, py, pz) ==
    IF px <= py THEN (IF px <= pz THEN "x" ELSE "z")
    ELSE (IF py <= pz THEN "y" ELSE "z")

\* which plane the line leaves the voxel through: lines 174, 175, 186
Branch(px, py, pz) ==
    IF px < py THEN (IF px < pz THEN "x" ELSE "z")
    ELSE (IF py < pz THEN "y" ELSE "z")

InLoop == pc = "loop" /\ RatLess(Rat(a, 1), amax)

Entry(v, len) == [voxel |-> v, len |-> len]

\* ----------------------------------------------------------------- Init
Init ==
    /\ start_point \in [x : StartCoords, y : StartCoords, z : ZCoords]
    /\ stop_point \in [x : XCoords, y : YCoords, z : ZCoords]
    /\ voxel_size \in {[x |-> 1, y |-> 1, z |-> 1],
                       [x |-> 1, y |-> 2, z |-> 3]}
    /\ normalisation_constant \in 2 .. MaxNorm
    /\ call = 1
    /\ pc = "call"
    /\ inc = [i \in Axes |-> 0]
    /\ amax = Rat(0, 1)
    /\ a = 0 /\ ax = 0 /\ ay = 0 /\ az = 0
    /\ current_voxel = [i \in Axes |-> 0]
    /\ lor = [c \in 1 .. 2 |-> <<>>]

\* -------------------------------------------------------------- actions
\* lines 53-169, every assert passing or compiled out (NDEBUG)
Enter ==
    /\ pc = "call"
    /\ inc' = [i \in Axes |-> inc_of(i)]
    /\ amax' = amax_of
    /\ current_voxel' = first_voxel
    /\ a' = a_first
    /\ ax' = a_next("x")
    /\ ay' = a_next("y")
    /\ az' = a_next("z")
    /\ pc' = "loop"
    /\ UNCHANGED <<inputs, call, lor>>

\* an assert of lines 128-130 or 167-169 fails: the program aborts
AssertFail ==
    /\ pc = "call"
    /\ ~(AssertEndsLargeEnough /\ AssertPendingLargeEnough)
    /\ pc' = "assert_failed"
    /\ UNCHANGED <<inputs, consts, call, a, ax, ay, az, current_voxel, lor>>

Push(len) == lor' = [lor EXCEPT ![call] = Append(@, Entry(current_voxel, len))]

\* lines 176-180
StepX ==
    /\ InLoop
    /\ Len(lor[call]) < MaxEntries
    /\ Branch(ax, ay, az) = "x"
    /\ Push(ax - a)
    /\ a' = ax
    /\ ax' = ax + inc.x
    /\ current_voxel' = [current_voxel EXCEPT !.x = @ + sign("x")]
    /\ UNCHANGED <<inputs, consts, call, pc, ay, az>>

\* slip: a crossing through an edge (ax = ay) taken as one diagonal step
StepY_corner ==
    /\ InLoop
    /\ Len(lor[call]) < MaxEntries
    /\ Branch(ax, ay, az) = "y"
    /\ Push(ay - a)
    /\ a' = ay
    /\ ay' = ay + inc.y
    /\ ax' = IF ax = ay THEN ax + inc.x ELSE ax
    /\ current_voxel' =
          [current_voxel EXCEPT !.y = @ + sign("y"),
                                !.x = IF ax = ay THEN @ + sign("x") ELSE @]
    /\ UNCHANGED <<inputs, consts, call, pc, az>>

\* lines 186-190
StepY ==
    /\ InLoop
    /\ Len(lor[call]) < MaxEntries
    /\ Branch(ax, ay, az) = "y"
    /\ Push(ay - a)
    /\ a' = ay
    /\ ay' = ay + inc.y
    /\ current_voxel' = [current_voxel EXCEPT !.y = @ + sign("y")]
    /\ UNCHANGED <<inputs, consts, call, pc, ax, az>>

\* lines 181-185 and 191-195
StepZ ==
    /\ InLoop
    /\ Len(lor[call]) < MaxEntries
    /\ Branch(ax, ay, az) = "z"
    /\ Push(az - a)
    /\ a' = az
    /\ az' = az + inc.z
    /\ current_voxel' = [current_voxel EXCEPT !.z = @ + sign("z")]
    /\ UNCHANGED <<inputs, consts, call, pc, ax, ay>>

\* the loop condition of line 173 fails: the first call returns and the
\* caller traces the same line again with normalisation 1
ReturnFirst ==
    /\ pc = "loop"
    /\ ~RatLess(Rat(a, 1), amax)
    /\ call = 1
    /\ call' = 2
    /\ pc' = "call"
    /\ UNCHANGED <<inputs, consts, a, ax, ay, az, current_voxel, lor>>

ReturnSecond ==
    /\ pc = "loop"
    /\ ~RatLess(Rat(a, 1), amax)
    /\ call = 2
    /\ pc' = "done"
    /\ UNCHANGED <<inputs, consts, call, a, ax, ay, az, current_voxel, lor>>

Next == Enter \/ AssertFail \/ StepX \/ StepY \/ StepZ
          \/ ReturnFirst \/ ReturnSecond

Spec == Init /\ [][Next]_vars

\* the liveness specification: unit voxels only; the function is sequential
\* code that keeps running until it returns or aborts
FairInit == Init /\ voxel_size = [i \in Axes |-> 1]

FairSpec == FairInit /\ [][Next]_vars /\ WF_vars(Next)

TypeOK ==
    /\ pc \in {"call", "loop", "assert_failed", "done"}
    /\ call \in 1 .. 2
    /\ \A c \in 1 .. 2 : Len(lor[c]) <= MaxEntries


\* ------------------------------------------------------ helper notions
RECURSIVE SumLen(_)
SumLen(s) == IF s = <<>> THEN 0 ELSE s[1].len + SumLen(Tail(s))

\* the loop of the call in progress has just exited (a still holds its
\* final value)
LoopExit == pc = "loop" /\ ~InLoop

Degenerate == start_point = stop_point

rounded(p) == [i \in Axes |-> round(p[i])]

OnBoundary(n) == n % Scale = Half

UnitVoxels == voxel_size = [i \in Axes |-> 1]

Pt(px, py, pz) == [x |-> px, y |-> py, z |-> pz]

\* Scenario A: (0.5,0.5,0.5) -> (3.5,0.5,0.5), unit voxels
ScenarioA == /\ start_point = Pt(Half, Half, Half)
             /\ stop_point = Pt(7 * Half, Half, Half)
             /\ UnitVoxels

\* Scenario B: (0,0,0) -> (2,2,0), unit voxels
ScenarioB == /\ start_point = Pt(0, 0, 0)
             /\ stop_point = Pt(4 * Half, 4 * Half, 0)
             /\ UnitVoxels

\* ---------------------------------------------------------------- C1
\* C1 (as stated): when a call has finished, the sum of the unnormalised
\* lengths it appended equals |(stop - start) * voxel_size|, i.e. the sum of
\* the lengths equals d12
C1_LengthEqualsDistance ==
    LoopExit => SumLen(lor[call]) = d12

\* C1 (amended): the lengths add up to the parametric distance from the
\* plane through which the line enters the start voxel (a_first <= 0) to the
\* last plane crossed (a >= amax >= .9999 d12): first and last voxel count
\* with their whole chord
C1_LengthIsEntryToExit ==
    /\ pc = "loop" => SumLen(lor[call]) = a - a_first /\ a_first <= 0
    /\ LoopExit => /\ ~RatLess(Rat(a, 1), amax)
                   /\ SumLen(lor[call]) * Fine >= d12 * SafetyNum

\* Scenario A with normalisation 1 has finished: 4 entries of length 1.0
\* (2 ticks of 0.5), not 3
C1_Witness ==
    /\ ScenarioA /\ pc = "done"
    /\ Len(lor[2]) = 4
    /\ \A j \in 1 .. 4 : lor[2][j].len * 3 = norm
    /\ SumLen(lor[2]) * 3 = 4 * norm

\* ---------------------------------------------------------------- C2
FaceAdjacent(v, w) ==
    \E i \in Axes : /\ Abs(v[i] - w[i]) = 1
                    /\ \A j \in Axes \ {i} : v[j] = w[j]

\* C2: consecutive entries of one call differ by exactly one unit along
\* exactly one axis and agree on the other two
C2_FaceAdjacency ==
    \A c \in 1 .. 2 : \A j \in 1 .. Len(lor[c]) - 1 :
        FaceAdjacent(lor[c][j].voxel, lor[c][j + 1].voxel)

\* Scenario B has finished: five entries (0,0,0), (0,1,0), (1,1,0),
\* (1,2,0), (2,2,0), two of them of length zero at the corners
C2_Witness ==
    /\ ScenarioB /\ pc = "done"
    /\ Len(lor[2]) = 5
    /\ lor[2][2].voxel = Pt(0, 1, 0) /\ lor[2][2].len = 0
    /\ lor[2][5].voxel = Pt(2, 2, 0)

\* ---------------------------------------------------------------- C3
\* the parametric position at which the line enters the voxel of the stop
\* point (numerators over Scale; not below the entry into the start voxel)
stop_voxel_entry(i) ==
    IF zero_diff_in(i) THEN a_first
    ELSE (((round(stop_point[i]) * Scale - sign(i) * Half - start_point[i])
             * inc[i] * sign(i)) \div Scale)

StopVoxelEntry ==
    Max2(a_first, Max2(stop_voxel_entry("x"),
                       Max2(stop_voxel_entry("y"), stop_voxel_entry("z"))))

Between(n, lo, hi) == (lo <= n /\ n <= hi) \/ (hi <= n /\ n <= lo)

\* C3 (as stated): for start # stop the first entry is the voxel of the
\* start point and the last entry is the voxel of the stop point
C3_FirstAndLastVoxel ==
    (LoopExit /\ ~Degenerate) =>
        /\ Len(lor[call]) >= 1
        /\ lor[call][1].voxel = rounded(start_point)
        /\ lor[call][Len(lor[call])].voxel = rounded(stop_point)

\* C3 (amended): for start # stop the first entry is the voxel of the start
\* point, every entry lies between the voxels of start and stop on every
\* axis, and the last entry is the voxel of the stop point exactly when the
\* line enters that voxel before amax
C3_FirstVoxelAndStopIfEntered ==
    (LoopExit /\ ~Degenerate) =>
        /\ Len(lor[call]) >= 1
        /\ lor[call][1].voxel = rounded(start_point)
        /\ \A j \in 1 .. Len(lor[call]) : \A i \in Axes :
              Between(lor[call][j].voxel[i],
                      round(start_point[i]), round(stop_point[i]))
        /\ (lor[call][Len(lor[call])].voxel = rounded(stop_point))
              <=> RatLess(Rat(StopVoxelEntry, 1), amax)

\* the segment (-0.5,1,0) -> (-0.5,0.5,0.5) has been traced: the voxel of
\* the stop point, (-1,1,1), is touched in one point only and not appended
C3_Witness ==
    /\ LoopExit
    /\ start_point = Pt(-1, 2 * Half, 0) /\ stop_point = Pt(-1, Half, Half)
    /\ Len(lor[call]) = 1
    /\ lor[call][1].voxel = rounded(start_point)
    /\ lor[call][1].voxel # rounded(stop_point)
    /\ ~RatLess(Rat(StopVoxelEntry, 1), amax)

C5_DegenerateIsHarmless ==
    Degenerate =>
        /\ pc # "assert_failed"
        /\ \A c \in 1 .. 2 :
              \/ Len(lor[c]) = 0
              \/ Len(lor[c]) = 1 /\ lor[c][1].len = 0

pending(i) == IF i = "x" THEN ax ELSE IF i = "y" THEN ay ELSE az

MinPending == IF ax <= ay /\ ax <= az THEN ax
              ELSE IF ay <= az THEN ay ELSE az

Tie == Cardinality({i \in Axes : pending(i) = MinPending}) >= 2

Stepped(i) ==
    current_voxel' = [current_voxel EXCEPT ![i] = @ + sign(i)]

\* C8 (as stated): of equal minimal pending crossings, x is stepped before y
\* and y before z
C8_TieOrderXYZ ==
    [][(InLoop /\ Tie) =>
          Stepped(IF ax = MinPending THEN "x"
                  ELSE IF ay = MinPending THEN "y" ELSE "z")]_vars

\* C8 (amended): of equal minimal pending crossings, z is stepped before y
\* and y before x
C8_TieOrderZYX ==
    [][(InLoop /\ Tie) =>
          Stepped(IF az = MinPending THEN "z"
                  ELSE IF ay = MinPending THEN "y" ELSE "x")]_vars

\* a three-way tie has been resolved by stepping z
C8_Witness ==
    /\ pc = "loop"
    /\ Len(lor[call]) = 1
    /\ a = az - inc.z /\ a = ax /\ a = ay
    /\ ~zero_diff_in("x") /\ ~zero_diff_in("y") /\ ~zero_diff_in("z")
    /\ current_voxel.z = lor[call][1].voxel.z + sign("z")

\* ---------------------------------------------------------------- C9
\* C9 (as stated): a strictly increases in every iteration, so every entry
\* has a strictly positive length
C9_StrictProgress ==
    /\ pc = "loop" => a < MinPending
    /\ \A c \in 1 .. 2 : \A j \in 1 .. Len(lor[c]) : lor[c][j].len > 0

\* C9 (amended): a never decreases, so every entry has a length >= 0 (a
\* crossing through an edge or corner is taken one axis at a time and gives
\* an entry of length zero for the voxel in between)
C9_NoBackwardProgress ==
    /\ pc = "loop" => a <= MinPending
    /\ \A c \in 1 .. 2 : \A j \in 1 .. Len(lor[c]) : lor[c][j].len >= 0

\* Scenario B: the corner voxels (0,1,0) and (1,2,0) have length zero
C9_Witness ==
    /\ ScenarioB /\ pc = "done"
    /\ lor[2][2].len = 0 /\ lor[2][4].len = 0
    /\ lor[2][1].len > 0 /\ lor[2][3].len > 0

\* --------------------------------------------------------------- C10
JustEntered == pc = "loop" /\ Len(lor[call]) = 0 /\ a = a_first

\* C10 (as stated): a start (stop) coordinate on a voxel boundary is given
\* to the voxel on the side of the direction of travel
C10_BoundaryTowardsTravel ==
    JustEntered => \A i \in Axes :
        /\ (OnBoundary(start_point[i]) /\ ~zero_diff_in(i)) =>
              current_voxel[i] * Scale = start_point[i] + sign(i) * Half
        /\ (OnBoundary(stop_point[i]) /\ ~zero_diff_in(i)) =>
              max_plane(i) = stop_point[i] + sign(i) * Scale

\* C10 (amended): the start voxel is round(start) and the end plane is the
\* far face of round(stop) whatever the direction; a coordinate on a voxel
\* boundary goes to the voxel away from zero
C10_BoundaryAwayFromZero ==
    JustEntered => \A i \in Axes :
        /\ current_voxel[i] = round(start_point[i])
        /\ max_plane(i) - sign(i) * Half = round(stop_point[i]) * Scale
        /\ OnBoundary(start_point[i]) =>
              current_voxel[i] * Scale = start_point[i] +
                  (IF start_point[i] >= 0 THEN Half ELSE -Half)
        /\ OnBoundary(stop_point[i]) =>
              round(stop_point[i]) * Scale = stop_point[i] +
                  (IF stop_point[i] >= 0 THEN Half ELSE -Half)

\* x starts on the boundary 0.5 and travels in the negative direction, yet
\* the start voxel is 1, behind the direction of travel
C10_Witness ==
    /\ JustEntered
    /\ start_point.x = Half /\ stop_point.x < start_point.x
    /\ current_voxel.x = 1

\* the guard on MaxEntries never holds the loop back
CapNotReached == InLoop => Len(lor[call]) < MaxEntries

====
